---- MODULE Spec2Model ----
(***************************************************************************)
(* Model of the flow execution engine of backend/main.py: the node         *)
(* variants, FlowEngine.build_graph, FlowEngine.topological_sort,          *)
(* FlowEngine.execute_flow, and the POST /flows and                        *)
(* POST /flows/{flow_id}/execute handlers that store flows and execution   *)
(* records.                                                                *)
(*                                                                         *)
(* A Python str is a sequence of atoms (a brace, a key name, or a run of   *)
(* literal text without braces); a Python value is a tagged record.        *)
(* A dict is a function; its domain is the set of keys that are present.   *)
(***************************************************************************)
EXTENDS Integers, Sequences, FiniteSets, TLC

VARIABLES flows_db, executions_db, runs

vars == <<flows_db, executions_db, runs>>

\* ------------------------------------------------------------------ bounds
\* the size of a posted flow: the number of its nodes plus that of its edges
MaxSize == 5

\* ------------------------------------------------------------------ values
Str(s) == [t |-> "str", s |-> s]

None == [t |-> "none"]

IsNone(v) == "t" \in DOMAIN v /\ v.t = "none"

\* A list object.  cell is its identity: the values with one cell are one
\* object, wherever they are held; n is the number of its items, each the
\* integer 1.
List(cell, n) == [t |-> "list", cell |-> cell, n |-> n]

IsList(v) == "t" \in DOMAIN v /\ v.t = "list"

\* type(value).__name__
TypeName(v) == IF v.t = "str" THEN "str" ELSE IF v.t = "list" THEN "list" ELSE "NoneType"

EmptyDict == <<>>

\* dict.get(key, default)
Get(d, k, default) == IF k \in DOMAIN d THEN d[k] ELSE default

\* the items of the text of a list of n ones
RECURSIVE Items(_)
Items(n) == IF n = 0 THEN <<>> ELSE IF n = 1 THEN <<"1">> ELSE <<"1", ", ">> \o Items(n - 1)

\* str(value) for the values the flows carry: a str is itself, None is
\* "None", a list of two ones is "[1, 1]"
PyStr(v) ==
    IF v.t = "str" THEN v.s
    ELSE IF v.t = "list" THEN <<"[">> \o Items(v.n) \o <<"]">>
    ELSE <<"None">>

\* does pat occur in s at position i
MatchAt(s, pat, i) ==
    /\ i + Len(pat) - 1 <= Len(s)
    /\ \A j \in 1..Len(pat) : s[i + j - 1] = pat[j]

RECURSIVE ReplaceFrom(_, _, _, _)
ReplaceFrom(s, pat, rep, i) ==
    IF i > Len(s) THEN <<>>
    ELSE IF MatchAt(s, pat, i)
         THEN rep \o ReplaceFrom(s, pat, rep, i + Len(pat))
         ELSE <<s[i]>> \o ReplaceFrom(s, pat, rep, i + 1)

\* str.replace(old, new) for a non-empty old: every non-overlapping
\* occurrence, scanning left to right
Replace(s, pat, rep) == ReplaceFrom(s, pat, rep, 1)

\* f'{{{key}}}'
Placeholder(key) == <<"{", key, "}">>

\* ------------------------------------------------- insertion-ordered dicts
\* A dict whose iteration order the code depends on: the keys in insertion
\* order and the mapping itself.
ODEmpty == [keys |-> <<>>, val |-> <<>>]

ODHas(d, k) == k \in DOMAIN d.val

ODGet(d, k, default) == IF ODHas(d, k) THEN d.val[k] ELSE default

\* d[k] = v: a new key goes last, an existing key keeps its position
ODPut(d, k, v) ==
    [keys |-> IF ODHas(d, k) THEN d.keys ELSE Append(d.keys, k),
     val  |-> (k :> v) @@ d.val]

\* ------------------------------------------------------ node variants
Return(v) == [kind |-> "return", output |-> [output |-> v]]

Raise(msg) == [kind |-> "raise", msg |-> msg]

\* for key, value in d.items(): result = result.replace(f'{{{key}}}', str(value))
RECURSIVE SubstituteAll(_, _, _)
SubstituteAll(result, d, i) ==
    IF i > Len(d.keys) THEN result
    ELSE SubstituteAll(Replace(result, Placeholder(d.keys[i]), PyStr(d.val[d.keys[i]])),
                       d, i + 1)

\* the pass over the inputs is left out (variant)
PromptNode_execute_noinputs(data, inputs) ==
    LET template  == Get(data, "template", Str(<<>>))
        variables == Get(data, "variables", ODEmpty)
    IN IF IsNone(variables)
       THEN Raise(Str(<<"'NoneType' object has no attribute 'items'">>))
       ELSE IF IsNone(template)
       THEN IF Len(variables.keys) > 0
            THEN Raise(Str(<<"'NoneType' object has no attribute 'replace'">>))
            ELSE Return(None)
       ELSE Return(Str(SubstituteAll(template.s, variables, 1)))

\* the pass over the inputs runs before the pass over the variables (variant)
PromptNode_execute_swapped(data, inputs) ==
    LET template  == Get(data, "template", Str(<<>>))
        variables == Get(data, "variables", ODEmpty)
    IN IF IsNone(variables)
       THEN Raise(Str(<<"'NoneType' object has no attribute 'items'">>))
       ELSE IF IsNone(template)
       THEN IF Len(variables.keys) + Len(inputs.keys) > 0
            THEN Raise(Str(<<"'NoneType' object has no attribute 'replace'">>))
            ELSE Return(None)
       ELSE Return(Str(SubstituteAll(SubstituteAll(template.s, inputs, 1), variables, 1)))

\* template with the {key} tokens replaced from variables, then from inputs
PromptNode_execute(data, inputs) ==
    LET template  == Get(data, "template", Str(<<>>))
        variables == Get(data, "variables", ODEmpty)
    IN IF IsNone(variables)
       THEN Raise(Str(<<"'NoneType' object has no attribute 'items'">>))
       ELSE IF IsNone(template)
       THEN IF Len(variables.keys) + Len(inputs.keys) > 0
            THEN Raise(Str(<<"'NoneType' object has no attribute 'replace'">>))
            ELSE Return(None)
       ELSE Return(Str(SubstituteAll(SubstituteAll(template.s, variables, 1), inputs, 1)))

\* the user code, called as user_function(input_data, inputs)
UserFunction(code, input_data, inputs) ==
    CASE code = "return input_data" -> Return(input_data)
      [] code = "return inputs['input']" ->
            IF ODHas(inputs, "input") THEN Return(inputs.val["input"])
            ELSE Raise(Str(<<"'input'">>))
      [] code = "input_data.append(1); return input_data" ->
            IF IsList(input_data) THEN Return([input_data EXCEPT !.n = @ + 1])
            ELSE Raise(Str(<<"'", TypeName(input_data), "' object has no attribute 'append'">>))
      [] OTHER -> Raise(Str(<<"invalid syntax">>))

\* the fault of the user code is raised by the node (variant)
FunctionNode_execute_propagate(data, inputs) ==
    UserFunction(Get(data, "code", "return input_data"),
                 ODGet(inputs, "input", Str(<<>>)), inputs)

\* the user code's value, or "Error: " and the message of its fault
FunctionNode_execute(data, inputs) ==
    LET function_code == Get(data, "code", "return input_data")
        r == UserFunction(function_code, ODGet(inputs, "input", Str(<<>>)), inputs)
    IN IF r.kind = "return" THEN Return(r.output.output)
       ELSE Return(Str(<<"Error: ">> \o PyStr(r.msg)))

\* what the language-model capability does when it is called
Capability == {"unconfigured", "ok", "failing"}

LLMNode_execute(data, inputs, cap) ==
    LET prompt == ODGet(inputs, "prompt", Get(data, "prompt", Str(<<>>)))
    IN CASE cap = "unconfigured" ->
                Return(Str(<<"Mock LLM response for: ">> \o PyStr(prompt)))
         [] cap = "ok" -> Return(Str(<<"completion">>))
         [] cap = "failing" -> Return(Str(<<"LLM Error: ", "connection error">>))

StartNode_execute(data, inputs) ==
    Return(Get(data, "initialValue", Str(<<"Started">>)))

EndNode_execute(data, inputs) ==
    Return(ODGet(inputs, "input", Str(<<"Completed">>)))

\* FlowEngine.node_types
node_types == {"prompt", "function", "llm", "start", "end"}

\* node_class(node_id, node_data.data).execute(inputs)
Execute(type, data, inputs, cap) ==
    CASE type = "prompt"   -> PromptNode_execute(data, inputs)
      [] type = "function" -> FunctionNode_execute(data, inputs)
      [] type = "llm"      -> LLMNode_execute(data, inputs, cap)
      [] type = "start"    -> StartNode_execute(data, inputs)
      [] type = "end"      -> EndNode_execute(data, inputs)

\* The objects the execute of a node mutates: the user code of a function
\* node may append to the list it is given as input_data.  No other node
\* variant writes to its data or to its inputs' values.
Mutates(type, data, inputs) ==
    IF /\ type = "function"
       /\ Get(data, "code", "return input_data") = "input_data.append(1); return input_data"
       /\ IsList(ODGet(inputs, "input", Str(<<>>)))
    THEN {ODGet(inputs, "input", Str(<<>>)).cell}
    ELSE {}

\* value v once the objects of cells got one more item
Touch(v, cells) == IF IsList(v) /\ v.cell \in cells THEN [v EXCEPT !.n = @ + 1] ELSE v

\* an entry of a result map: {"output": value} or {"error": message}
TouchOutput(output, cells) ==
    IF "output" \in DOMAIN output THEN [output |-> Touch(output.output, cells)] ELSE output

\* a node of a flow: its initialValue may be a list
TouchNode(node, cells) ==
    [node EXCEPT !.data = [k \in DOMAIN @ |-> IF k = "initialValue" THEN Touch(@[k], cells)
                                                ELSE @[k]]]

\* A run holds the flow object of flows_db itself, and its results and its
\* node_outputs hold the very objects the nodes returned.
TouchRun(run, cells) ==
    IF cells = {} THEN run
    ELSE [run EXCEPT !.flow.nodes  = [i \in DOMAIN @ |-> TouchNode(@[i], cells)],
                     !.node_map    = [n \in DOMAIN @ |-> TouchNode(@[n], cells)],
                     !.results     = [n \in DOMAIN @ |-> TouchOutput(@[n], cells)],
                     !.node_outputs = [n \in DOMAIN @ |-> Touch(@[n], cells)]]

TouchFlows(db, cells) ==
    IF cells = {} THEN db
    ELSE [f \in DOMAIN db |-> [db[f] EXCEPT !.nodes = [i \in DOMAIN @ |-> TouchNode(@[i], cells)]]]

\* execution.results is the map execute_flow returned
TouchExecutions(db, cells) ==
    IF cells = {} THEN db
    ELSE [x \in DOMAIN db |-> [db[x] EXCEPT !.results = [n \in DOMAIN @ |-> TouchOutput(@[n], cells)]]]

\* ------------------------------------------------------------ the engine
\* for edge in edges: graph[edge.source].append(edge.target)
RECURSIVE Adjacency(_, _, _)
Adjacency(edges, i, graph) ==
    IF i > Len(edges) THEN graph
    ELSE Adjacency(edges, i + 1,
                   (edges[i].source :> Append(Get(graph, edges[i].source, <<>>), edges[i].target))
                       @@ graph)

\* for edge in edges: in_degree[edge.target] += 1
RECURSIVE CountIncoming(_, _, _)
CountIncoming(edges, i, in_degree) ==
    IF i > Len(edges) THEN in_degree
    ELSE CountIncoming(edges, i + 1,
                       ODPut(in_degree, edges[i].target, ODGet(in_degree, edges[i].target, 0) + 1))

\* for node in nodes: if node.id not in in_degree: in_degree[node.id] = 0
RECURSIVE EnsureNodes(_, _, _)
EnsureNodes(nodes, i, in_degree) ==
    IF i > Len(nodes) THEN in_degree
    ELSE EnsureNodes(nodes, i + 1,
                     IF ODHas(in_degree, nodes[i].id) THEN in_degree
                     ELSE ODPut(in_degree, nodes[i].id, 0))

\* node_map = {node.id: node for node in nodes}
RECURSIVE NodeMap(_, _, _)
NodeMap(nodes, i, node_map) ==
    IF i > Len(nodes) THEN node_map
    ELSE NodeMap(nodes, i + 1, (nodes[i].id :> nodes[i]) @@ node_map)

build_graph(nodes, edges) ==
    [graph     |-> Adjacency(edges, 1, EmptyDict),
     in_degree |-> EnsureNodes(nodes, 1, CountIncoming(edges, 1, ODEmpty)),
     node_map  |-> NodeMap(nodes, 1, EmptyDict)]

\* every key of in_degree is put in the initial queue (variant)
InitialQueue_all(in_degree, i) == in_degree.keys

\* deque([node for node, degree in in_degree.items() if degree == 0])
RECURSIVE InitialQueue(_, _)
InitialQueue(in_degree, i) ==
    IF i > Len(in_degree.keys) THEN <<>>
    ELSE (IF in_degree.val[in_degree.keys[i]] = 0 THEN <<in_degree.keys[i]>> ELSE <<>>)
         \o InitialQueue(in_degree, i + 1)

\* a successor is enqueued at every decrement (variant)
RECURSIVE Relax_eager(_, _, _)
Relax_eager(neighbors, i, st) ==
    IF i > Len(neighbors) THEN st
    ELSE LET d == ODGet(st.in_degree, neighbors[i], 0) - 1
         IN Relax_eager(neighbors, i + 1,
                  [in_degree |-> ODPut(st.in_degree, neighbors[i], d),
                   queue     |-> Append(st.queue, neighbors[i])])

\* for neighbor in graph[node]: in_degree[neighbor] -= 1; enqueue at 0
RECURSIVE Relax(_, _, _)
Relax(neighbors, i, st) ==
    IF i > Len(neighbors) THEN st
    ELSE LET d == ODGet(st.in_degree, neighbors[i], 0) - 1
         IN Relax(neighbors, i + 1,
                  [in_degree |-> ODPut(st.in_degree, neighbors[i], d),
                   queue     |-> IF d = 0 THEN Append(st.queue, neighbors[i]) ELSE st.queue])

\* the work queue is popped at its right end, as a stack (variant)
SortIteration_lifo(graph, in_degree, queue, result) ==
    LET node == queue[Len(queue)]
        st   == Relax(Get(graph, node, <<>>), 1,
                      [in_degree |-> in_degree, queue |-> SubSeq(queue, 1, Len(queue) - 1)])
    IN [in_degree |-> st.in_degree, queue |-> st.queue, result |-> Append(result, node)]

\* one iteration of the while loop of topological_sort
SortIteration(graph, in_degree, queue, result) ==
    LET node == Head(queue)
        st   == Relax(Get(graph, node, <<>>), 1, [in_degree |-> in_degree, queue |-> Tail(queue)])
    IN [in_degree |-> st.in_degree, queue |-> st.queue, result |-> Append(result, node)]

\* the first binding of a port key is kept (variant)
RECURSIVE GatherInputs_first(_, _, _, _, _)
GatherInputs_first(edges, i, node_id, node_outputs, inputs) ==
    IF i > Len(edges) THEN inputs
    ELSE GatherInputs_first(edges, i + 1, node_id, node_outputs,
            IF /\ edges[i].target = node_id /\ edges[i].source \in DOMAIN node_outputs
               /\ ~ODHas(inputs, IF edges[i].sourceHandle = "" THEN "input" ELSE edges[i].sourceHandle)
            THEN ODPut(inputs,
                       IF edges[i].sourceHandle = "" THEN "input" ELSE edges[i].sourceHandle,
                       node_outputs[edges[i].source])
            ELSE inputs)

\* inputs[edge.sourceHandle or 'input'] = node_outputs[edge.source], in
\* edge-list order, for the edges into node_id whose source has an output
RECURSIVE GatherInputs(_, _, _, _, _)
GatherInputs(edges, i, node_id, node_outputs, inputs) ==
    IF i > Len(edges) THEN inputs
    ELSE GatherInputs(edges, i + 1, node_id, node_outputs,
            IF edges[i].target = node_id /\ edges[i].source \in DOMAIN node_outputs
            THEN ODPut(inputs,
                       IF edges[i].sourceHandle = "" THEN "input" ELSE edges[i].sourceHandle,
                       node_outputs[edges[i].source])
            ELSE inputs)

\* output.get('output', output)
PrimaryOutput(output) == IF "output" \in DOMAIN output THEN output.output ELSE output

\* str(KeyError(node_id))
KeyErrorMessage(node_id) == Str(<<"'", node_id, "'">>)

\* if not node_class: a node of a kind outside node_types raises out of
\* execute_flow (variant)
UnknownKind_strict(run, node_id, node_data) ==
    [run EXCEPT !.pc = "raised", !.error = Str(<<"'NoneType' object is not callable">>)]

\* if not node_class: results[node_id] = {"error": ...}; continue
UnknownKind(run, node_id, node_data) ==
    [run EXCEPT !.idx = @ + 1,
         !.results = (node_id :> [error |-> Str(<<"Unknown node type: ", node_data.type>>)]) @@ @]

\* the fault of a node leaves execute_flow (variant)
RecordOutcome_abort(run, node_id, r) ==
    IF r.kind = "return"
    THEN [run EXCEPT !.node_outputs = (node_id :> PrimaryOutput(r.output)) @@ @,
               !.results = (node_id :> r.output) @@ @]
    ELSE [run EXCEPT !.pc = "raised", !.idx = @ - 1, !.error = r.msg]

\* the fault of a node is swallowed without a record (variant)
RecordOutcome_norecord(run, node_id, r) ==
    IF r.kind = "return"
    THEN [run EXCEPT !.node_outputs = (node_id :> PrimaryOutput(r.output)) @@ @,
               !.results = (node_id :> r.output) @@ @]
    ELSE run

\* the message of a fault is cached like a primary output (variant)
RecordOutcome_cachefault(run, node_id, r) ==
    IF r.kind = "return"
    THEN [run EXCEPT !.node_outputs = (node_id :> PrimaryOutput(r.output)) @@ @,
               !.results = (node_id :> r.output) @@ @]
    ELSE [run EXCEPT !.node_outputs = (node_id :> r.msg) @@ @,
               !.results = (node_id :> [error |-> r.msg]) @@ @]

\* the try/except around node.execute: the output and its primary value
\* are recorded, or the fault's message is
RecordOutcome(run, node_id, r) ==
    IF r.kind = "return"
    THEN [run EXCEPT !.node_outputs = (node_id :> PrimaryOutput(r.output)) @@ @,
               !.results = (node_id :> r.output) @@ @]
    ELSE [run EXCEPT !.results = (node_id :> [error |-> r.msg]) @@ @]

\* node.execute is awaited outside any try: its fault leaves execute_flow
\* (variant)
NodeIteration_nocatch(run, cap) ==
    LET node_id == run.execution_order[run.idx]
    IN IF node_id \notin DOMAIN run.node_map
       THEN [run EXCEPT !.pc = "raised", !.error = KeyErrorMessage(node_id)]
       ELSE LET node_data == run.node_map[node_id]
            IN IF node_data.type \notin node_types
               THEN UnknownKind(run, node_id, node_data)
               ELSE LET inputs == GatherInputs(run.flow.edges, 1, node_id, run.node_outputs, ODEmpty)
                        seen == [TouchRun(run, Mutates(node_data.type, node_data.data, inputs))
                                     EXCEPT !.idx = @ + 1, !.executed = Append(@, node_id),
                                     !.inputs_of = (node_id :> inputs) @@ @,
                                     !.llm = IF node_data.type = "llm" THEN (node_id :> cap) @@ @ ELSE @]
                        r == Execute(node_data.type, node_data.data, inputs, cap)
                    IN IF r.kind = "return"
                       THEN RecordOutcome(seen, node_id, r)
                       ELSE [run EXCEPT !.pc = "raised", !.error = r.msg]

\* a node whose execute raises is tried again: the iteration is repeated
\* (variant)
NodeIteration_retry(run, cap) ==
    LET node_id == run.execution_order[run.idx]
    IN IF node_id \notin DOMAIN run.node_map
       THEN [run EXCEPT !.pc = "raised", !.error = KeyErrorMessage(node_id)]
       ELSE LET node_data == run.node_map[node_id]
            IN IF node_data.type \notin node_types
               THEN UnknownKind(run, node_id, node_data)
               ELSE LET inputs == GatherInputs(run.flow.edges, 1, node_id, run.node_outputs, ODEmpty)
                        seen == [TouchRun(run, Mutates(node_data.type, node_data.data, inputs))
                                     EXCEPT !.idx = @ + 1, !.executed = Append(@, node_id),
                                     !.inputs_of = (node_id :> inputs) @@ @,
                                     !.llm = IF node_data.type = "llm" THEN (node_id :> cap) @@ @ ELSE @]
                        r == Execute(node_data.type, node_data.data, inputs, cap)
                    IN IF r.kind = "return" THEN RecordOutcome(seen, node_id, r) ELSE run

\* one iteration of the for loop of execute_flow over execution_order;
\* cap is what the language-model capability does if this node calls it
NodeIteration(run, cap) ==
    LET node_id == run.execution_order[run.idx]
    IN IF node_id \notin DOMAIN run.node_map
       THEN [run EXCEPT !.pc = "raised", !.error = KeyErrorMessage(node_id)]
       ELSE LET node_data == run.node_map[node_id]
            IN IF node_data.type \notin node_types
               THEN UnknownKind(run, node_id, node_data)
               ELSE LET inputs == GatherInputs(run.flow.edges, 1, node_id, run.node_outputs, ODEmpty)
                        seen == [TouchRun(run, Mutates(node_data.type, node_data.data, inputs))
                                     EXCEPT !.idx = @ + 1,
                                     !.executed = Append(@, node_id),
                                     !.inputs_of = (node_id :> inputs) @@ @,
                                     !.llm = IF node_data.type = "llm" THEN (node_id :> cap) @@ @ ELSE @]
                    IN RecordOutcome(seen, node_id,
                                     Execute(node_data.type, node_data.data, inputs, cap))

\* ------------------------------------------------- the flows a client posts
NodeData(id, type, data) == [id |-> id, type |-> type, data |-> data]

EdgeData(source, target, sourceHandle) ==
    [source |-> source, target |-> target, sourceHandle |-> sourceHandle]

\* The nodes a posted flow is assembled from, one per node kind and
\* configuration of interest; "custom" is a kind the engine does not know,
\* and "b" is a prompt node whose variables are null.
NodeCatalogue ==
    << NodeData("s", "start", ("initialValue" :> Str(<<"hi">>))),
       NodeData("p", "prompt", ("template" :> Str(<<"{", "input", "}", "!">>))),
       NodeData("f", "function", ("code" :> "return inputs['input']")),
       NodeData("l", "llm", ("prompt" :> Str(<<"ask">>))),
       NodeData("e", "end", EmptyDict),
       NodeData("u", "custom", EmptyDict),
       NodeData("b", "prompt", ("template" :> Str(<<"{", "input", "}", "!">>)) @@ ("variables" :> None)) >>

\* an id no node of the catalogue has
Ghost == "x"

\* The sourceHandle of the edges that leave a node: the client labels the
\* output port of the function node "prompt" and leaves the other ports
\* unlabelled; "" stands for null or the empty string (both falsy).
SourceHandle(src) == IF src = "f" THEN "prompt" ELSE ""

Min(S) == CHOOSE m \in S : \A k \in S : m <= k

\* the catalogue entries with index in S, in catalogue order
RECURSIVE Pick(_)
Pick(S) == IF S = {} THEN <<>> ELSE <<NodeCatalogue[Min(S)]>> \o Pick(S \ {Min(S)})

NodeLists ==
    { Pick(S) : S \in { T \in SUBSET (1..Len(NodeCatalogue)) :
                           Cardinality(T) >= 1 /\ Cardinality(T) <= MaxSize } }

Ids(nodes) == { nodes[i].id : i \in 1..Len(nodes) }

\* the edge lists over the ids of nodes and the undeclared id
EdgeLists(nodes) ==
    LET E == { EdgeData(src, tgt, SourceHandle(src)) :
                  src \in Ids(nodes) \cup {Ghost}, tgt \in Ids(nodes) \cup {Ghost} }
    IN UNION { [1..k -> E] : k \in 0..(MaxSize - Len(nodes)) }

FlowIds == {"f1"}

ExecIds == {"e1"}

\* --------------------------------------------------------------- actions
\* The state of one call of FlowEngine.execute_flow.  executed, inputs_of
\* and llm record what happened: the nodes whose execute was invoked, the
\* inputs each got, and what the capability did for each llm node.
NewRun(flow) ==
    [pc |-> "build", flow |-> flow,
     graph |-> EmptyDict, in_degree |-> ODEmpty, node_map |-> EmptyDict,
     queue |-> <<>>, result |-> <<>>, execution_order |-> <<>>, idx |-> 1,
     results |-> EmptyDict, node_outputs |-> EmptyDict, error |-> None,
     executed |-> <<>>, inputs_of |-> EmptyDict, llm |-> EmptyDict]

\* topological_sort returns result once the queue is empty
LeaveSort(run) ==
    IF run.queue = <<>>
    THEN [run EXCEPT !.pc = "nodes", !.execution_order = run.result]
    ELSE run

Init ==
    /\ flows_db = EmptyDict
    /\ executions_db = EmptyDict
    /\ runs = EmptyDict

\* POST /flows
create_flow ==
    \E id \in FlowIds \ DOMAIN flows_db, nodes \in NodeLists :
        \E edges \in EdgeLists(nodes) :
            /\ flows_db' = (id :> [nodes |-> nodes, edges |-> edges]) @@ flows_db
            /\ UNCHANGED <<executions_db, runs>>

\* POST /flows/{flow_id}/execute up to the call of the engine
execute_flow_start ==
    \E flow_id \in DOMAIN flows_db, execution_id \in ExecIds \ DOMAIN executions_db :
        /\ executions_db' =
              (execution_id :> [flow_id |-> flow_id, status |-> "running",
                                results |-> EmptyDict, completed_at |-> FALSE,
                                error |-> None]) @@ executions_db
        /\ runs' = (execution_id :> NewRun(flows_db[flow_id])) @@ runs
        /\ UNCHANGED flows_db

\* build_graph and the initial queue of topological_sort
Built(run) ==
    CHOOSE built \in
        { LeaveSort([run EXCEPT !.pc = "sort", !.graph = g.graph,
                         !.in_degree = g.in_degree, !.node_map = g.node_map,
                         !.queue = InitialQueue(g.in_degree, 1)]) :
             g \in {build_graph(run.flow.nodes, run.flow.edges)} } : TRUE

\* one iteration of the while loop of topological_sort
Sorted(run) ==
    LET it == SortIteration(run.graph, run.in_degree, run.queue, run.result)
    IN LeaveSort([run EXCEPT !.in_degree = it.in_degree, !.queue = it.queue,
                      !.result = it.result])

BuildGraph ==
    \E x \in DOMAIN runs :
        /\ runs[x].pc = "build"
        /\ runs' = [runs EXCEPT ![x] = Built(@)]
        /\ UNCHANGED <<flows_db, executions_db>>

SortStep ==
    \E x \in DOMAIN runs :
        /\ runs[x].pc = "sort"
        /\ runs' = [runs EXCEPT ![x] = Sorted(@)]
        /\ UNCHANGED <<flows_db, executions_db>>

\* what the capability may do in the next iteration: it is consulted by an
\* llm node only
CapabilityFor(run) ==
    LET node_id == run.execution_order[run.idx]
    IN IF node_id \in DOMAIN run.node_map /\ run.node_map[node_id].type = "llm"
       THEN Capability ELSE {"unconfigured"}

\* the objects the next iteration of the for loop mutates
MutatedNext(run) ==
    LET node_id == run.execution_order[run.idx]
    IN IF node_id \in DOMAIN run.node_map /\ run.node_map[node_id].type \in node_types
       THEN Mutates(run.node_map[node_id].type, run.node_map[node_id].data,
                    GatherInputs(run.flow.edges, 1, node_id, run.node_outputs, ODEmpty))
       ELSE {}

\* One iteration of the for loop of execute_flow.  What the node mutates is
\* mutated wherever the object is held: in flows_db, in the other runs and
\* in the stored execution records.
NodeStep ==
    \E x \in DOMAIN runs :
        /\ runs[x].pc = "nodes"
        /\ runs[x].idx <= Len(runs[x].execution_order)
        /\ \E cap \in CapabilityFor(runs[x]) :
              runs' = [y \in DOMAIN runs |->
                          IF y = x THEN NodeIteration(runs[x], cap)
                          ELSE TouchRun(runs[y], MutatedNext(runs[x]))]
        /\ flows_db' = TouchFlows(flows_db, MutatedNext(runs[x]))
        /\ executions_db' = TouchExecutions(executions_db, MutatedNext(runs[x]))

\* a failure among the results makes the run failed (variant)
HandlerReturn_strict ==
    \E x \in DOMAIN runs :
        /\ runs[x].pc = "nodes"
        /\ runs[x].idx > Len(runs[x].execution_order)
        /\ runs' = [runs EXCEPT ![x].pc = "returned"]
        /\ executions_db' = [executions_db EXCEPT ![x].results = runs[x].results,
                                 ![x].status =
                                     IF \E n \in DOMAIN runs[x].results :
                                            "error" \in DOMAIN runs[x].results[n]
                                     THEN "failed" ELSE "completed",
                                 ![x].completed_at = TRUE]
        /\ UNCHANGED flows_db

\* execute_flow returns results; the handler stores them
HandlerReturn ==
    \E x \in DOMAIN runs :
        /\ runs[x].pc = "nodes"
        /\ runs[x].idx > Len(runs[x].execution_order)
        /\ runs' = [runs EXCEPT ![x].pc = "returned"]
        /\ executions_db' = [executions_db EXCEPT ![x].results = runs[x].results,
                                 ![x].status = "completed", ![x].completed_at = TRUE]
        /\ UNCHANGED flows_db

\* execute_flow raised; the handler stores the error
HandlerExcept ==
    \E x \in DOMAIN runs :
        /\ runs[x].pc = "raised"
        /\ runs' = [runs EXCEPT ![x].pc = "failed"]
        /\ executions_db' = [executions_db EXCEPT ![x].error = runs[x].error,
                                 ![x].status = "failed", ![x].completed_at = TRUE]
        /\ UNCHANGED flows_db

Next ==
    \/ create_flow
    \/ execute_flow_start
    \/ BuildGraph
    \/ SortStep
    \/ NodeStep
    \/ HandlerReturn
    \/ HandlerExcept

Spec == Init /\ [][Next]_vars

\* a step of a request handler that has been started
RunStep ==
    \/ BuildGraph
    \/ SortStep
    \/ NodeStep
    \/ HandlerReturn
    \/ HandlerExcept

\* POST /flows with a flow one smaller than the largest
create_flow_small ==
    \E id \in FlowIds \ DOMAIN flows_db, nodes \in NodeLists :
        \E edges \in EdgeLists(nodes) :
            /\ Len(nodes) + Len(edges) < MaxSize
            /\ flows_db' = (id :> [nodes |-> nodes, edges |-> edges]) @@ flows_db
            /\ UNCHANGED <<executions_db, runs>>

FairNext ==
    \/ create_flow_small
    \/ execute_flow_start
    \/ BuildGraph
    \/ SortStep
    \/ NodeStep
    \/ HandlerReturn
    \/ HandlerExcept

\* The event loop runs a started handler on: none of its steps waits for
\* anything but the node's execute, which returns or raises.  Clients are
\* under no obligation to post anything.
FairSpec == Init /\ [][FairNext]_vars /\ WF_vars(RunStep)

\* ------------------------------------------------- graph-theoretic notions
EdgeSet(flow) == { flow.edges[i] : i \in 1..Len(flow.edges) }

\* every edge references declared node ids only
Declared(flow) ==
    \A e \in EdgeSet(flow) : e.source \in Ids(flow.nodes) /\ e.target \in Ids(flow.nodes)

\* the ids reachable from S along zero or more edges
RECURSIVE ReachableFrom(_, _)
ReachableFrom(flow, S) ==
    LET T == S \cup { e.target : e \in { d \in EdgeSet(flow) : d.source \in S } }
    IN IF T = S THEN S ELSE ReachableFrom(flow, T)

\* some edge closes a directed cycle (a self-loop included)
HasCycle(flow) == \E e \in EdgeSet(flow) : e.source \in ReachableFrom(flow, {e.target})

Range(seq) == { seq[i] : i \in 1..Len(seq) }

Precedes(seq, a, b) == \E i, j \in 1..Len(seq) : i < j /\ seq[i] = a /\ seq[j] = b

\* topological_sort has returned
SortDone(run) == run.pc \in {"nodes", "returned", "raised", "failed"}

IsSuccess(res) == DOMAIN res = {"output"}

IsFailure(res) == DOMAIN res = {"error"}

\* ---------------------------------------------------------------- claims
\* C1: for an acyclic graph whose edges reference only declared node ids,
\* the execution order lists every node exactly once with every edge's
\* source before its target, and execute_flow processes the nodes in that
\* order, so a source is processed and executed before its target.
C1_TopologicalOrder ==
    \A x \in DOMAIN runs :
        LET r == runs[x] IN
        (SortDone(r) /\ Declared(r.flow) /\ ~HasCycle(r.flow)) =>
            /\ Len(r.execution_order) = Len(r.flow.nodes)
            /\ Range(r.execution_order) = Ids(r.flow.nodes)
            /\ \A e \in EdgeSet(r.flow) : Precedes(r.execution_order, e.source, e.target)
            /\ DOMAIN r.results = { r.execution_order[i] : i \in 1..(r.idx - 1) }
            /\ \A e \in EdgeSet(r.flow) :
                  /\ e.target \in DOMAIN r.results => e.source \in DOMAIN r.results
                  /\ (e.target \in Range(r.executed) /\ e.source \in Range(r.executed))
                        => Precedes(r.executed, e.source, e.target)

\* a finished run of a two-edge acyclic flow one of whose edges goes
\* against the node-list order, with both ends of that edge executed
C1_Witness ==
    \E x \in DOMAIN runs :
        LET r == runs[x] IN
        /\ r.pc = "returned" /\ Declared(r.flow) /\ ~HasCycle(r.flow)
        /\ Len(r.flow.edges) = 2
        /\ \E e \in EdgeSet(r.flow) :
              /\ Precedes([i \in 1..Len(r.flow.nodes) |-> r.flow.nodes[i].id], e.target, e.source)
              /\ Precedes(r.executed, e.source, e.target)

\* C2: a graph with a directed cycle (a self-loop included) is rejected
\* before any node executes: no node is executed and no result map is
\* returned.
C2_CycleRejected ==
    \A x \in DOMAIN runs :
        HasCycle(runs[x].flow) =>
            /\ runs[x].executed = <<>>
            /\ runs[x].pc # "returned"

\* C3: when an edge references an undeclared node id, no node's execute is
\* invoked and the run ends as failed.
C3_UnknownIdFatal ==
    \A x \in DOMAIN runs :
        ~Declared(runs[x].flow) =>
            /\ runs[x].executed = <<>>
            /\ runs[x].pc # "returned"
            /\ executions_db[x].status # "completed"

\* ------------------------------------------------------ C4 .. C10 notions
NodeOf(run, n) == run.node_map[n]

KnownKind(run, n) == n \in DOMAIN run.node_map /\ NodeOf(run, n).type \in node_types

\* what the execute of node n did with the inputs it was given
Outcome(run, n) ==
    Execute(NodeOf(run, n).type, NodeOf(run, n).data, run.inputs_of[n],
            Get(run.llm, n, "unconfigured"))

\* the execute of node n raised a fault
Faulted(run, n) == n \in Range(run.executed) /\ Outcome(run, n).kind = "raise"

\* the port key an edge binds
PortKey(e) == IF e.sourceHandle = "" THEN "input" ELSE e.sourceHandle

\* the positions of the edges into t whose source produced an output
Feeding(run, t) ==
    { i \in 1..Len(run.flow.edges) :
         /\ run.flow.edges[i].target = t
         /\ run.flow.edges[i].source \in DOMAIN run.results
         /\ IsSuccess(run.results[run.flow.edges[i].source]) }

Max(S) == CHOOSE m \in S : \A k \in S : k <= m

\* the flow without node u and without the edges that touch it
Without(flow, u) ==
    LET KeepNode(n) == n.id # u
        KeepEdge(e) == e.source # u /\ e.target # u
    IN [nodes |-> SelectSeq(flow.nodes, KeepNode), edges |-> SelectSeq(flow.edges, KeepEdge)]

\* execute_flow run to its end, the capability answering each llm node as
\* oracle says
RECURSIVE RunToEnd(_, _)
RunToEnd(run, oracle) ==
    CASE run.pc = "build" -> RunToEnd(Built(run), oracle)
      [] run.pc = "sort"  -> RunToEnd(Sorted(run), oracle)
      [] run.pc = "nodes" /\ run.idx <= Len(run.execution_order) ->
            RunToEnd(NodeIteration(run, Get(oracle, run.execution_order[run.idx], "unconfigured")),
                     oracle)
      [] OTHER -> run

\* C4: when a node's execute raises, a failure marker with the fault's
\* message is recorded for it and the run goes on: the run raises at no
\* node (only at a scheduled id that no node has), a returned run has a
\* result for every scheduled node and executed every one of a known kind,
\* and a node downstream of the failed node gets inputs that hold only
\* bindings of predecessors that succeeded.
C4_FaultIsolated ==
    \A x \in DOMAIN runs :
        LET r == runs[x] IN
        \A n \in Range(r.executed) :
            Faulted(r, n) =>
                /\ n \in DOMAIN r.results
                /\ r.results[n] = [error |-> Outcome(r, n).msg]
                /\ n \notin DOMAIN r.node_outputs
                /\ r.pc \in {"raised", "failed"} =>
                      r.execution_order[r.idx] \notin Ids(r.flow.nodes)
                /\ r.pc = "returned" =>
                      \A m \in Range(r.execution_order) :
                          /\ m \in DOMAIN r.results
                          /\ KnownKind(r, m) => m \in Range(r.executed)
                /\ \A t \in Range(r.executed) :
                      (\E e \in EdgeSet(r.flow) : e.source = n /\ e.target = t) =>
                          \A k \in Range(r.inputs_of[t].keys) :
                              \E e \in EdgeSet(r.flow) :
                                  /\ e.target = t /\ PortKey(e) = k /\ e.source # n
                                  /\ e.source \in DOMAIN r.results
                                  /\ IsSuccess(r.results[e.source])
                                  /\ r.inputs_of[t].val[k] = r.results[e.source].output

\* a returned run in which a node raised and a node downstream of it was
\* executed afterwards with the binding of another predecessor only
C4_Witness ==
    \E x \in DOMAIN runs :
        LET r == runs[x] IN
        /\ r.pc = "returned"
        /\ \E n, t \in Range(r.executed) :
              /\ Faulted(r, n)
              /\ Precedes(r.executed, n, t)
              /\ \E e \in EdgeSet(r.flow) : e.source = n /\ e.target = t
              /\ Len(r.inputs_of[t].keys) = 1

\* C5: a run never raises at a node of an unknown kind: such a node gets a
\* failure marker, is not executed and produces no output, and the run
\* continues; in an otherwise valid
\* graph every other node gets the result it gets in the flow without that
\* node.
C5_UnknownKindIsolated ==
    \A x \in DOMAIN runs :
        LET r == runs[x] IN
        /\ r.pc \in {"raised", "failed"} =>
              ~(r.execution_order[r.idx] \in DOMAIN r.node_map
                   /\ ~KnownKind(r, r.execution_order[r.idx]))
        /\ \A i \in 1..(r.idx - 1) :
            LET u == r.execution_order[i] IN
            (u \in DOMAIN r.node_map /\ ~KnownKind(r, u)) =>
                /\ u \in DOMAIN r.results
                /\ IsFailure(r.results[u])
                /\ u \notin Range(r.executed)
                /\ u \notin DOMAIN r.node_outputs
                /\ (r.pc = "returned" /\ Declared(r.flow) /\ ~HasCycle(r.flow)) =>
                      LET alone == RunToEnd(NewRun(Without(r.flow, u)), r.llm)
                      IN /\ alone.pc = "nodes"
                         /\ \A n \in Ids(r.flow.nodes) \ {u} :
                               /\ n \in DOMAIN alone.results
                               /\ r.results[n] = alone.results[n]

\* a returned run of a valid three-node flow in which the node of the
\* unknown kind has an edge to a node that was executed
C5_Witness ==
    \E x \in DOMAIN runs :
        LET r == runs[x] IN
        /\ r.pc = "returned" /\ Declared(r.flow) /\ ~HasCycle(r.flow)
        /\ Len(r.flow.nodes) = 3
        /\ \E u \in DOMAIN r.results, t \in Range(r.executed) :
              /\ ~KnownKind(r, u) /\ IsFailure(r.results[u])
              /\ \E e \in EdgeSet(r.flow) : e.source = u /\ e.target = t
              /\ IsSuccess(r.results[t])

\* C6: an executed node's inputs hold, for every incoming edge whose
\* source produced an output, a binding under that edge's port key, and
\* the value bound under a key is the output of the source of the last
\* edge, in edge-list order, that binds that key; nothing else is bound.
C6_FanIn ==
    \A x \in DOMAIN runs :
        LET r == runs[x] IN
        \A t \in Range(r.executed) :
            /\ Range(r.inputs_of[t].keys) = { PortKey(r.flow.edges[i]) : i \in Feeding(r, t) }
            /\ \A i \in Feeding(r, t) :
                  LET k    == PortKey(r.flow.edges[i])
                      last == Max({ j \in Feeding(r, t) : PortKey(r.flow.edges[j]) = k })
                  IN r.inputs_of[t].val[k] = r.results[r.flow.edges[last].source].output

\* an executed node with two incoming edges under the same port key from
\* two predecessors with different outputs
C6_Witness ==
    \E x \in DOMAIN runs :
        LET r == runs[x] IN
        \E t \in Range(r.executed) :
            \E i, j \in Feeding(r, t) :
                /\ i < j
                /\ PortKey(r.flow.edges[i]) = PortKey(r.flow.edges[j])
                /\ r.results[r.flow.edges[i].source].output # r.results[r.flow.edges[j].source].output
                /\ r.inputs_of[t].val[PortKey(r.flow.edges[j])] = r.results[r.flow.edges[j].source].output

\* C7: the result of an executed function or llm node is always a success:
\* when the user code raises, the output is the text "Error: " and the
\* fault's message; when the capability is unconfigured or fails, the
\* output is the mock text or the text "LLM Error: " and the message.
C7_FailSoft ==
    \A x \in DOMAIN runs :
        LET r == runs[x] IN
        \A n \in Range(r.executed) :
            /\ NodeOf(r, n).type \in {"function", "llm"} =>
                  /\ IsSuccess(r.results[n])
                  /\ r.results[n].output.t = "str"
                  /\ r.node_outputs[n] = r.results[n].output
            /\ NodeOf(r, n).type = "function" =>
                  LET call == UserFunction(Get(NodeOf(r, n).data, "code", "return input_data"),
                                           ODGet(r.inputs_of[n], "input", Str(<<>>)),
                                           r.inputs_of[n])
                  IN call.kind = "raise" =>
                        r.results[n].output = Str(<<"Error: ">> \o call.msg.s)
            /\ (NodeOf(r, n).type = "llm" /\ r.llm[n] = "unconfigured") =>
                  Head(r.results[n].output.s) = "Mock LLM response for: "
            /\ (NodeOf(r, n).type = "llm" /\ r.llm[n] = "failing") =>
                  Head(r.results[n].output.s) = "LLM Error: "

\* a run that executed a function node whose code raised and an llm node
\* whose capability failed
C7_Witness ==
    \E x \in DOMAIN runs :
        LET r == runs[x] IN
        \E n, m \in Range(r.executed) :
            /\ NodeOf(r, n).type = "function"
            /\ r.results[n] = [output |-> Str(<<"Error: ", "'input'">>)]
            /\ NodeOf(r, m).type = "llm" /\ r.llm[m] = "failing"
            /\ IsSuccess(r.results[m])

\* C8: for an acyclic graph with declared ids only, the returned map has
\* exactly one entry per node id, each either a success or a failure.
C8_ResultMapShape ==
    \A x \in DOMAIN runs :
        LET r == runs[x] IN
        (r.pc = "returned" /\ Declared(r.flow) /\ ~HasCycle(r.flow)) =>
            /\ DOMAIN r.results = Ids(r.flow.nodes)
            /\ executions_db[x].results = r.results
            /\ \A n \in DOMAIN r.results :
                  IsSuccess(r.results[n]) # IsFailure(r.results[n])

\* a returned run of a valid three-node flow with edges, a success and a
\* failure among its results
C8_Witness ==
    \E x \in DOMAIN runs :
        LET r == runs[x] IN
        /\ r.pc = "returned" /\ Declared(r.flow) /\ ~HasCycle(r.flow)
        /\ Len(r.flow.nodes) = 3 /\ Len(r.flow.edges) = 2
        /\ \E n, m \in DOMAIN r.results : IsSuccess(r.results[n]) /\ IsFailure(r.results[m])

\* C9: the status is failed only if execute_flow raised, and completed
\* exactly when it returned, then carrying the whole result map; node
\* failures never make a run of a flow with declared ids fail.
C9_StatusTopLevelOnly ==
    \A x \in DOMAIN executions_db :
        LET r == runs[x]
            rec == executions_db[x]
        IN /\ rec.status = "failed" <=> r.pc = "failed"
           /\ rec.status = "completed" <=> r.pc = "returned"
           /\ rec.status = "completed" => rec.results = r.results /\ IsNone(rec.error)
           /\ rec.status = "failed" =>
                 /\ ~Declared(r.flow)
                 /\ rec.error = KeyErrorMessage(r.execution_order[r.idx])
                 /\ r.execution_order[r.idx] \notin Ids(r.flow.nodes)
           /\ (Declared(r.flow) /\ r.pc = "nodes" /\ r.idx > Len(r.execution_order)) =>
                 rec.status = "running"

\* a completed execution whose results hold the failure of a node that
\* raised and the failure of a node of an unknown kind
C9_Witness ==
    \E x \in DOMAIN executions_db :
        LET r == runs[x] IN
        /\ executions_db[x].status = "completed"
        /\ \E n \in Range(r.executed) :
              Faulted(r, n) /\ IsFailure(executions_db[x].results[n])
        /\ \E u \in DOMAIN executions_db[x].results :
              ~KnownKind(r, u) /\ IsFailure(executions_db[x].results[u])

\* the flow is a start node, a prompt node and an end node chained by one
\* edge each with default ports
IsLinearChain(flow) ==
    /\ Len(flow.nodes) = 3 /\ Len(flow.edges) = 2
    /\ flow.nodes[1].type = "start" /\ flow.nodes[2].type = "prompt" /\ flow.nodes[3].type = "end"
    /\ ~IsNone(Get(flow.nodes[2].data, "variables", ODEmpty))
    /\ EdgeSet(flow) = { EdgeData(flow.nodes[1].id, flow.nodes[2].id, ""),
                          EdgeData(flow.nodes[2].id, flow.nodes[3].id, "") }

\* C10: on the chain Start("hi") -> Prompt("{input}!") -> End the returned
\* results are the successes "hi", "hi!" and "hi!".
C10_LinearChain ==
    \A x \in DOMAIN runs :
        LET r == runs[x] IN
        (r.pc = "returned" /\ IsLinearChain(r.flow)) =>
            /\ r.flow.nodes[1].data["initialValue"] = Str(<<"hi">>)
            /\ r.flow.nodes[2].data["template"] = Str(<<"{", "input", "}", "!">>)
            /\ r.results = (r.flow.nodes[1].id :> [output |-> Str(<<"hi">>)])
                           @@ (r.flow.nodes[2].id :> [output |-> Str(<<"hi", "!">>)])
                           @@ (r.flow.nodes[3].id :> [output |-> Str(<<"hi", "!">>)])
            /\ executions_db[x].results = r.results

\* the chain has run to its end, the edge into the end node first in the
\* edge list
C10_Witness ==
    \E x \in DOMAIN runs :
        /\ runs[x].pc = "returned" /\ IsLinearChain(runs[x].flow)
        /\ runs[x].flow.edges[1].target = runs[x].flow.nodes[3].id
        /\ runs[x].executed = <<"s", "p", "e">>

\* ------------------------------------- direct calls of PromptNode.execute
\* the keys of the variables and of the inputs of a prompt node
PromptKeys == {"name", "x"}

\* "Hello {name}" and other templates: without a token, with one token
\* twice, with two tokens
PromptTemplates ==
    { <<"Hello ", "{", "name", "}">>,
      <<"plain">>,
      <<"{", "name", "}", " and ", "{", "name", "}">>,
      <<"{", "x", "}", ", ", "{", "name", "}">>,
      <<"{", "x", "}">> }

\* the values of the variables: a plain text, and a text that is itself a
\* token
VariableValues == { Str(<<"World">>), Str(<<"{", "name", "}">>) }

\* the values of the inputs: a text, and the null a node may output
InputValues == { Str(<<"Bob">>), None }

\* the orders in which the keys of S may have been inserted
Orders(S) ==
    { ks \in [1..Cardinality(S) -> S] :
         \A i, j \in 1..Cardinality(S) : i # j => ks[i] # ks[j] }

\* the dicts with keys among K and values among V, in every insertion order
Dicts(K, V) ==
    UNION { { [keys |-> ks, val |-> v] : ks \in Orders(S), v \in [S -> V] } : S \in SUBSET K }

\* a prompt node about to be executed with the given inputs
PromptInit ==
    /\ flows_db = EmptyDict
    /\ executions_db = EmptyDict
    /\ \E template \in PromptTemplates, variables \in Dicts(PromptKeys, VariableValues),
          inputs \in Dicts(PromptKeys, InputValues) :
          runs = ("call" :> [pc |-> "call",
                             data |-> ("template" :> Str(template)) @@ ("variables" :> variables),
                             inputs |-> inputs, out |-> None])

\* await node.execute(inputs) of a prompt node
PromptCall ==
    /\ runs["call"].pc = "call"
    /\ runs' = [runs EXCEPT !["call"].pc = "done",
                            !["call"].out = PromptNode_execute(runs["call"].data, runs["call"].inputs)]
    /\ UNCHANGED <<flows_db, executions_db>>

PromptSpec == PromptInit /\ [][PromptCall]_vars

\* pat occurs in the text s
Contains(s, pat) == \E i \in 1..Len(s) : MatchAt(s, pat, i)

\* the text of value v holds no token
TokenFree(v) == ~(\E i \in 1..Len(PyStr(v)) : PyStr(v)[i] = "{")

\* C11: a prompt node replaces the {name} tokens of its template first from
\* its variables and then from its inputs, and leaves a token no pass
\* resolves as it is.  "Hello {name}" with variable name = "World" gives
\* "Hello World" whether or not an input supplies name; the input's value
\* is used for a token the variable pass left (no variable of that name)
\* or put there (the variable's value is itself the token), so after the
\* call no token of an input's key is left in the output.
C11_PromptTwoPasses ==
    ("call" \in DOMAIN runs /\ runs["call"].pc = "done") =>
        LET template  == runs["call"].data["template"].s
            variables == runs["call"].data["variables"]
            inputs    == runs["call"].inputs
            out       == runs["call"].out
            hello     == <<"Hello ", "{", "name", "}">>
        IN /\ out.kind = "return"
           /\ out.output.output.t = "str"
           /\ LET text == out.output.output.s IN
              /\ (template = hello /\ variables = ODPut(ODEmpty, "name", Str(<<"World">>))
                     /\ ~ODHas(inputs, "name"))
                    => text = <<"Hello ", "World">>
              /\ template = hello =>
                    text = <<"Hello ">> \o
                           (IF ODHas(variables, "name") /\ TokenFree(variables.val["name"])
                            THEN PyStr(variables.val["name"])
                            ELSE IF ODHas(inputs, "name")
                            THEN PyStr(inputs.val["name"])
                            ELSE Placeholder("name"))
              /\ \A k \in PromptKeys :
                    /\ ODHas(inputs, k) => ~Contains(text, Placeholder(k))
                    /\ (Contains(template, Placeholder(k)) /\ ~ODHas(variables, k)
                           /\ ~ODHas(inputs, k))
                          => Contains(text, Placeholder(k))
                    /\ (Contains(template, Placeholder(k)) /\ ~ODHas(variables, k)
                           /\ ODHas(inputs, k))
                          => Contains(text, PyStr(inputs.val[k]))

\* the call is over for a template whose token the variable turned into the
\* token {name}, which the input of that name then resolved
C11_Witness ==
    /\ "call" \in DOMAIN runs
    /\ runs["call"].pc = "done"
    /\ runs["call"].data["template"].s = <<"{", "x", "}">>
    /\ ODHas(runs["call"].data["variables"], "x")
    /\ runs["call"].data["variables"].val["x"] = Str(<<"{", "name", "}">>)
    /\ ODHas(runs["call"].inputs, "name")
    /\ runs["call"].inputs.val["name"] = Str(<<"Bob">>)
    /\ runs["call"].out = Return(Str(<<"Bob">>))

\* the for loop of execute_flow is over: return results is next or done
LoopDone(run) ==
    \/ run.pc = "returned"
    \/ run.pc = "nodes" /\ run.idx > Len(run.execution_order)

\* C12: for a graph whose edges reference only declared node ids, cyclic or
\* not, execute_flow never raises, whatever the kinds and configurations of
\* the nodes and whatever faults their execute raises: every fault is kept
\* as a failure marker in the result map, and the map the run returns has
\* an entry for every scheduled node.
C12_NeverRaises ==
    \A x \in DOMAIN runs :
        LET r == runs[x] IN
        Declared(r.flow) =>
            /\ r.pc \notin {"raised", "failed"}
            /\ IsNone(r.error)
            /\ \A n \in Range(r.executed) :
                  Faulted(r, n) => n \in DOMAIN r.results /\ IsFailure(r.results[n])
            /\ LoopDone(r) => DOMAIN r.results = Range(r.execution_order)

\* a returned run of a declared-id graph with an edge, in which a node
\* raised, a node is of an unknown kind and the capability failed
C12_Witness ==
    \E x \in DOMAIN runs :
        LET r == runs[x] IN
        /\ r.pc = "returned" /\ Declared(r.flow) /\ Len(r.flow.edges) >= 1
        /\ \E n \in Range(r.executed) : Faulted(r, n)
        /\ \E n \in DOMAIN r.node_map : ~KnownKind(r, n)
        /\ \E n \in DOMAIN r.llm : r.llm[n] = "failing"

\* the edges of the flow into node t
EdgesInto(flow, t) == { e \in EdgeSet(flow) : e.target = t }

\* node s has finished with a success output
Succeeded(run, s) == s \in DOMAIN run.results /\ IsSuccess(run.results[s])

\* the inputs hold the binding of edge e: the output of e's source under
\* e's port key
HoldsBindingOf(run, inputs, e) ==
    /\ ODHas(inputs, PortKey(e))
    /\ e.source \in DOMAIN run.results
    /\ "output" \in DOMAIN run.results[e.source]
    /\ inputs.val[PortKey(e)] = run.results[e.source].output

\* C13 as stated: in a run over an acyclic graph with declared-id edges, in
\* the step that gathers the inputs of node t every source of an edge into
\* t has already finished, and for every edge s -> t the inputs hold the
\* binding of that edge exactly when s finished with a success output.
C13_BindingPerEdge ==
    [][\A x \in DOMAIN runs :
          LET r == runs[x]
              q == runs'[x]
          IN (Declared(r.flow) /\ ~HasCycle(r.flow) /\ Len(q.executed) = Len(r.executed) + 1) =>
                LET t == q.executed[Len(q.executed)]
                IN \A e \in EdgesInto(r.flow, t) :
                      /\ e.source \in DOMAIN r.results
                      /\ Succeeded(r, e.source) <=> HoldsBindingOf(r, q.inputs_of[t], e)
    ]_vars

\* C13 (amended): in a run over an acyclic graph with declared-id edges
\* every step executes at most one node and writes at most one result; in
\* the step that gathers the inputs of node t every source of an edge into
\* t has already finished, and the inputs bind exactly the port keys of the
\* edges into t whose source finished with a success output, each to the
\* output of such a source and never to anything of a failed, unknown-kind
\* or not-yet-run node.  (Of two such edges with one port key only one
\* binding is held.)
C13_SequentialGather ==
    [][\A x \in DOMAIN runs :
          LET r == runs[x]
              q == runs'[x]
          IN (Declared(r.flow) /\ ~HasCycle(r.flow)) =>
                /\ Len(q.executed) <= Len(r.executed) + 1
                /\ Cardinality(DOMAIN q.results) <= Cardinality(DOMAIN r.results) + 1
                /\ \A n \in DOMAIN r.results : n \in DOMAIN q.results /\ q.results[n] = r.results[n]
                /\ Len(q.executed) = Len(r.executed) + 1 =>
                      LET t == q.executed[Len(q.executed)]
                          inputs == q.inputs_of[t]
                      IN /\ SubSeq(q.executed, 1, Len(r.executed)) = r.executed
                         /\ t \notin DOMAIN r.results
                         /\ \A e \in EdgesInto(r.flow, t) : e.source \in DOMAIN r.results
                         /\ Range(inputs.keys) =
                               { PortKey(e) : e \in { d \in EdgesInto(r.flow, t) : Succeeded(r, d.source) } }
                         /\ \A k \in Range(inputs.keys) :
                               \E e \in EdgesInto(r.flow, t) :
                                  /\ PortKey(e) = k
                                  /\ Succeeded(r, e.source)
                                  /\ inputs.val[k] = r.results[e.source].output
    ]_vars

\* a node has executed on the inputs of two incoming edges, one from a node
\* that succeeded and one from a node that raised, in an acyclic graph with
\* declared-id edges
C13_Witness ==
    \E x \in DOMAIN runs :
        LET r == runs[x] IN
        /\ Declared(r.flow) /\ ~HasCycle(r.flow)
        /\ \E t \in Range(r.executed) :
              \E d, e \in EdgesInto(r.flow, t) :
                 /\ Succeeded(r, d.source)
                 /\ Faulted(r, e.source)
                 /\ r.inputs_of[t].keys = <<PortKey(d)>>

\* the ids of the flow's nodes in node-list order
NodeIdSeq(flow) == [i \in 1..Len(flow.nodes) |-> flow.nodes[i].id]

\* the positions of the edges into t
IndexesInto(flow, t) == { i \in 1..Len(flow.edges) : flow.edges[i].target = t }

NoIncoming(flow, n) == IndexesInto(flow, n) = {}

\* the nodes without an incoming edge, in node-list order
RECURSIVE ZeroInDegree(_, _)
ZeroInDegree(flow, i) ==
    IF i > Len(flow.nodes) THEN <<>>
    ELSE (IF NoIncoming(flow, flow.nodes[i].id) THEN <<flow.nodes[i].id>> ELSE <<>>)
         \o ZeroInDegree(flow, i + 1)

PosIn(seq, a) == CHOOSE i \in 1..Len(seq) : seq[i] = a

\* the position in order of the source that is dequeued last among the
\* sources of the edges into t: dequeuing it brings t's in-degree to 0
TriggerPos(flow, order, t) ==
    Max({ PosIn(order, flow.edges[i].source) : i \in IndexesInto(flow, t) })

\* the position in the edge list of the last edge from that source into t
TriggerEdge(flow, order, t) ==
    Max({ i \in IndexesInto(flow, t) :
             PosIn(order, flow.edges[i].source) = TriggerPos(flow, order, t) })

\* C14: the scheduler breaks ties by list position.  The initial work queue
\* holds exactly the nodes without an incoming edge, in node-list order,
\* and they come first in the order; every other id is scheduled exactly
\* when all the sources of its incoming edges have been dequeued, after the
\* last of them, and these ids follow one another in the order in which
\* their in-degree reached 0: by the position of the source dequeued last
\* and then by the edge-list position of its edge.  This fixes the order
\* for given nodes and edges; with no edges it is the node-list order.
C14_DeterministicOrder ==
    \A x \in DOMAIN runs :
        LET r     == runs[x]
            flow  == r.flow
            zero  == ZeroInDegree(flow, 1)
            order == r.execution_order
            later == (Len(zero) + 1)..Len(order)
        IN /\ (r.pc = "sort" /\ r.result = <<>>) => r.queue = zero
           /\ SortDone(r) =>
                 /\ Len(order) >= Len(zero)
                 /\ SubSeq(order, 1, Len(zero)) = zero
                 /\ flow.edges = <<>> => order = NodeIdSeq(flow)
                 /\ \A t \in DOMAIN r.in_degree.val :
                       t \in Range(order) <=>
                          \A i \in IndexesInto(flow, t) : flow.edges[i].source \in Range(order)
                 /\ \A j \in later :
                       /\ IndexesInto(flow, order[j]) # {}
                       /\ TriggerPos(flow, order, order[j]) < j
                 /\ \A i, j \in later :
                       i < j =>
                          \/ TriggerPos(flow, order, order[i]) < TriggerPos(flow, order, order[j])
                          \/ /\ TriggerPos(flow, order, order[i]) = TriggerPos(flow, order, order[j])
                             /\ TriggerEdge(flow, order, order[i]) < TriggerEdge(flow, order, order[j])

\* the sort is over for a flow in which two successors of one node were
\* scheduled in edge-list order, against their node-list order
C14_Witness ==
    \E x \in DOMAIN runs :
        LET r     == runs[x]
            order == r.execution_order
        IN /\ SortDone(r)
           /\ \E i, j \in 1..Len(order) :
                 /\ i < j
                 /\ ~NoIncoming(r.flow, order[i]) /\ ~NoIncoming(r.flow, order[j])
                 /\ TriggerPos(r.flow, order, order[i]) = TriggerPos(r.flow, order, order[j])
                 /\ Precedes(NodeIdSeq(r.flow), order[j], order[i])

\* ------------------------------------------------ two runs, shared flows
\* The flows posted under id when two executions may be in flight: one
\* whose start node is configured with an (initially empty) list that its
\* function node appends to, one without a mutable value, and one whose
\* edge names an undeclared target.  The list is created when the posted
\* JSON is parsed, so each posted flow has its own.
IsolationFlows(id) ==
    { [nodes |-> << NodeData("m", "start", ("initialValue" :> List(id, 0))),
                    NodeData("a", "function", ("code" :> "input_data.append(1); return input_data")),
                    NodeCatalogue[2] >>,
       edges |-> << EdgeData("m", "a", ""), EdgeData("a", "p", "") >>],
      [nodes |-> << NodeCatalogue[1], NodeCatalogue[2] >>,
       edges |-> << EdgeData("s", "p", "") >>],
      [nodes |-> << NodeCatalogue[1] >>,
       edges |-> << EdgeData("s", Ghost, "") >>] }

IsolationFlowIds == {"f1", "f2"}

IsolationExecIds == {"e1", "e2"}

\* POST /flows
create_flow_shared ==
    \E id \in IsolationFlowIds \ DOMAIN flows_db :
        \E flow \in IsolationFlows(id) :
            /\ flows_db' = (id :> flow) @@ flows_db
            /\ UNCHANGED <<executions_db, runs>>

\* POST /flows/{flow_id}/execute up to the call of the engine
execute_flow_start_shared ==
    \E flow_id \in DOMAIN flows_db, execution_id \in IsolationExecIds \ DOMAIN executions_db :
        /\ executions_db' =
              (execution_id :> [flow_id |-> flow_id, status |-> "running",
                                results |-> EmptyDict, completed_at |-> FALSE,
                                error |-> None]) @@ executions_db
        /\ runs' = (execution_id :> NewRun(flows_db[flow_id])) @@ runs
        /\ UNCHANGED flows_db

IsolationNext ==
    \/ create_flow_shared
    \/ execute_flow_start_shared
    \/ BuildGraph
    \/ SortStep
    \/ NodeStep
    \/ HandlerReturn
    \/ HandlerExcept

IsolationSpec == Init /\ [][IsolationNext]_vars

\* the node as it was posted: its list empty
PostedNode(node) ==
    [node EXCEPT !.data = [k \in DOMAIN @ |-> IF k = "initialValue" /\ IsList(@[k])
                                                THEN List(@[k].cell, 0) ELSE @[k]]]

\* the flow as it was posted
Posted(flow) == [nodes |-> [i \in 1..Len(flow.nodes) |-> PostedNode(flow.nodes[i])],
                 edges |-> flow.edges]

\* the result map of the flow, as posted, run alone
ResultsAlone(flow) == RunToEnd(NewRun(Posted(flow)), EmptyDict).results

\* C15: two runs of the same or of different flows, interleaved at the
\* node executions or one after the other, are isolated: the result map a
\* run returned, and the one stored in its record, is the map the flow
\* gives when it is run alone, whatever the other run does or did.
C15_RunsIsolated ==
    \A x \in DOMAIN runs :
        runs[x].pc = "returned" =>
            /\ runs[x].results = ResultsAlone(runs[x].flow)
            /\ executions_db[x].results = ResultsAlone(runs[x].flow)

\* no element occurs twice in seq
NoDup(seq) == \A i, j \in 1..Len(seq) : i # j => seq[i] # seq[j]

\* C16: for any graph, cyclic, with self-loops, with duplicate edges or
\* with undeclared ids, no id is dequeued or queued twice by
\* topological_sort, so no id occurs twice in the order; execute_flow
\* invokes no node's execute twice, and every iteration of its loop writes
\* a result entry that was not there (the entries are as many as the
\* iterations done).
C16_AtMostOnce ==
    \A x \in DOMAIN runs :
        LET r == runs[x] IN
        /\ NoDup(r.result \o r.queue)
        /\ NoDup(r.execution_order)
        /\ NoDup(r.executed)
        /\ Range(r.executed) \subseteq DOMAIN r.results
        /\ Cardinality(DOMAIN r.results) = r.idx - 1

\* a returned run of a cyclic flow with a duplicate edge whose target was
\* executed
C16_Witness ==
    \E x \in DOMAIN runs :
        LET r == runs[x] IN
        /\ r.pc = "returned"
        /\ HasCycle(r.flow)
        /\ \E i, j \in 1..Len(r.flow.edges) :
              /\ i < j
              /\ r.flow.edges[i] = r.flow.edges[j]
              /\ r.flow.edges[i].target \in Range(r.executed)

\* the call of execute_flow of execution x is over and its work queue empty
Terminated(x) ==
    /\ x \in DOMAIN runs
    /\ runs[x].pc \in {"returned", "raised", "failed"}
    /\ runs[x].queue = <<>>

\* the handler has stored the outcome of execution x
Stored(x) ==
    /\ x \in DOMAIN executions_db
    /\ executions_db[x].status \in {"completed", "failed"}

\* C17: whatever the node list and the edge list, cyclic graphs included,
\* a started run terminates: the work queue empties and execute_flow
\* returns or raises, and the handler then stores the outcome.
C17_Terminates ==
    \A x \in ExecIds : (x \in DOMAIN runs) ~> (Terminated(x) /\ Stored(x))

\* the run of a flow with a cycle among its declared nodes has returned
\* after executing the nodes outside the cycle
C17_Witness ==
    \E x \in DOMAIN runs :
        LET r == runs[x] IN
        /\ Terminated(x)
        /\ r.pc = "returned"
        /\ Declared(r.flow) /\ HasCycle(r.flow)
        /\ Len(r.executed) >= 1
        /\ Len(r.execution_order) < Len(r.flow.nodes)

\* the record of an execution is in a terminal state
Terminal(rec) == rec.status \in {"completed", "failed"}

\* C18: the record of an execution is stored as running, with empty
\* results, no error and no completed_at, before the engine has done
\* anything; a running record changes only by becoming completed (the
\* results the engine returned, no error) or failed (an error, the results
\* still empty); completed_at is set exactly in a terminal record; and a
\* terminal record never changes again.
C18_RecordLifecycle ==
    [][/\ \A x \in DOMAIN executions_db' \ DOMAIN executions_db :
             /\ executions_db'[x].status = "running"
             /\ executions_db'[x].results = EmptyDict
             /\ IsNone(executions_db'[x].error)
             /\ ~executions_db'[x].completed_at
             /\ runs'[x].pc = "build"
       /\ \A x \in DOMAIN executions_db :
             LET old == executions_db[x]
                 new == executions_db'[x]
             IN /\ Terminal(old) => new = old
                /\ ~Terminal(old) =>
                      \/ new = old
                      \/ /\ new.status = "completed"
                         /\ new.results = runs[x].results
                         /\ IsNone(new.error)
                      \/ /\ new.status = "failed"
                         /\ ~IsNone(new.error)
                         /\ new.results = EmptyDict
                /\ new.completed_at <=> Terminal(new)
    ]_vars

====
